---------------------------- MODULE Spec2Model ----------------------------
(***************************************************************************)
(* Model of src/app.py: a Telegram bot that answers /start, /analytics and *)
(* /top20 by fetching documents from the Hyperliquid API.                  *)
(*                                                                         *)
(* A slot u is one webhook request together with the update it carries and *)
(* the process_update coroutine that handles it on the global event loop.  *)
(* The event loop is one thread: fetch_hyperliquid blocks it (requests.post*)
(* and time.sleep are synchronous), so while one coroutine is fetching or  *)
(* sleeping no other coroutine takes a step; coroutines interleave only at *)
(* their awaits (the reply sends).  Webhook requests run on Flask threads. *)
(*                                                                         *)
(* Spec describes the command layer at work: setup_application has run,    *)
(* /webhook is served, and the global loop runs the coroutines submitted   *)
(* to it.  SpecConc and SpecBoard are Spec from narrower initial states    *)
(* (several commands in flight; long leaderboards).  SpecMain describes    *)
(* the program from its first line: the token check, setup_application,    *)
(* main() and the requests the server thread takes from then on.           *)
(*                                                                         *)
(* A reply send either returns (the message was accepted) or raises.       *)
(***************************************************************************)
EXTENDS Integers, Sequences, FiniteSets, TLC

(* ------------------------------ bounds -------------------------------- *)

\* Updates in flight at once (webhook requests not yet forgotten).
MaxInFlight == 2

\* Longest leaderboard / string document the upstream returns.
MaxBoard == 2

\* Longest leaderboard where the cut at TopN is looked at.
MaxLong == 22

\* leaderboard_data[:20]
TopN == 20

Slots == 1..MaxInFlight

(* --------------------------- JSON values ------------------------------ *)

\* A rendered scalar: a number, or a string (n indexes the string; 0 is 'N/A').
Num(n) == [isNum |-> TRUE, n |-> n]

Str(n) == [isNum |-> FALSE, n |-> n]

\* the default 'N/A' of every .get(..., 'N/A')
NA == Str(0)

\* numbers the upstream may report in a field
Vals == {0, 150}

AFields == {"totalNotional", "longNotional", "shortNotional", "bias"}

EFields == {"size", "isLong", "coin"}

\* A leaderboard entry: a JSON object with some of size/isLong/coin, or a
\* JSON value that is no object (obj = FALSE).  Absent fields hold fillers.
NonObjEntry == [obj |-> FALSE, has |-> {}, size |-> 0, isLong |-> FALSE, coin |-> 0]

ObjEntry(h, s, b, c) ==
    [obj |-> TRUE, has |-> h,
     size |-> IF "size" \in h THEN s ELSE 0,
     isLong |-> IF "isLong" \in h THEN b ELSE FALSE,
     coin |-> IF "coin" \in h THEN c ELSE 0]

FullEntry == ObjEntry(EFields, 1, TRUE, 1)

Entries ==
    {ObjEntry(h, 1, b, 1) : h \in SUBSET EFields, b \in BOOLEAN} \cup {NonObjEntry}

\* A parsed JSON document (what response.json() returns): an object with
\* some of the analytics fields, an array of entries, a string of len
\* characters, or null.
ObjDoc(h, v) ==
    [kind |-> "object", has |-> h,
     val |-> [f \in AFields |-> IF f \in h THEN v[f] ELSE 0],
     items |-> <<>>, len |-> 0]

ArrDoc(items) ==
    [kind |-> "array", has |-> {}, val |-> [f \in AFields |-> 0],
     items |-> items, len |-> 0]

StrDoc(n) ==
    [kind |-> "string", has |-> {}, val |-> [f \in AFields |-> 0],
     items |-> <<>>, len |-> n]

NullDoc ==
    [kind |-> "null", has |-> {}, val |-> [f \in AFields |-> 0],
     items |-> <<>>, len |-> 0]

\* no document fetched (summary_data / leaderboard_data not bound)
NoDoc ==
    [kind |-> "none", has |-> {}, val |-> [f \in AFields |-> 0],
     items |-> <<>>, len |-> 0]

ObjDocs == {ObjDoc(h, v) : h \in SUBSET AFields, v \in [AFields -> Vals]}

ArrDocs == UNION {[1..n -> Entries] : n \in 0..MaxBoard}

OtherDocs == {StrDoc(n) : n \in 0..MaxBoard} \cup {NullDoc}

PlainOI == ObjDoc(AFields, [f \in AFields |-> 0])

PlainBoard == ArrDoc(<<FullEntry>>)


(* ------------------------------ texts --------------------------------- *)

\* A reply text: the template it was built from and what was put into it.
\* vals are the four analytics figures, lines the top20 lines, msg the
\* str(e) embedded in an error reply, lists the commands a help text names.
Text(tmpl, vals, lines, msg, lists) ==
    [tmpl |-> tmpl, vals |-> vals, lines |-> lines, msg |-> msg, lists |-> lists]

NoText == Text("none", <<>>, <<>>, "", {})

\* the static string of start()
HelpText == Text("help", <<>>, <<>>, "", {"start", "analytics", "top20"})

\* "Ocurrio un error interno. Intenta de nuevo."
GenericText == Text("generic", <<>>, <<>>, "", {})

\* f"Error al obtener analytics: {str(e)}" / f"Error al obtener top20: {str(e)}"
ErrorText(c, m) == Text("error", <<>>, <<>>, m, {c})

\* summary_data.get(f, 'N/A')
Get(d, f) == IF f \in d.has THEN Num(d.val[f]) ELSE NA

\* the f-string of analytics(): the four figures as fetched
AnalyticsText(d) ==
    Text("analytics",
         <<Get(d, "totalNotional"), Get(d, "longNotional"),
           Get(d, "shortNotional"), Get(d, "bias")>>,
         <<>>, "", {})

\* One line of top20: f"{i}. {size} {direction} {coin}"
Line(i, e) ==
    LET size == IF "size" \in e.has THEN Num(e.size) ELSE NA
        is_long == IF "isLong" \in e.has THEN e.isLong ELSE TRUE
        coin == IF "coin" \in e.has THEN Str(e.coin) ELSE NA
    IN [i |-> i, size |-> size,
        direction |-> IF is_long THEN "LONG" ELSE "SHORT", coin |-> coin]

Min(a, b) == IF a < b THEN a ELSE b

\* Slice without the cut: the whole leaderboard.
SliceAll(d) ==
    IF d.kind = "array"
    THEN d.items
    ELSE [k \in 1..d.len |-> NonObjEntry]

\* leaderboard_data[:20] where the document can be sliced: an array gives
\* its first entries, a string gives its first characters (each a str, no
\* object).
Slice(d) ==
    IF d.kind = "array"
    THEN SubSeq(d.items, 1, Min(Len(d.items), TopN))
    ELSE [k \in 1..Min(d.len, TopN) |-> NonObjEntry]

Top20Text(top_users) ==
    Text("top20", <<>>, [k \in 1..Len(top_users) |-> Line(k, top_users[k])], "", {})

\* The body of a handler's try block between the fetch and the reply:
\* the text to reply with, or the exception raised on the way.
Computed(ok, text, msg) == [ok |-> ok, text |-> text, msg |-> msg]

\* AnalyticsCompute reading the fields with summary_data[f]: an absent
\* field raises KeyError.
AnalyticsComputeStrict(d) ==
    IF d.kind = "object"
    THEN IF d.has = AFields
         THEN Computed(TRUE, AnalyticsText(d), "")
         ELSE Computed(FALSE, NoText, "KeyError")
    ELSE Computed(FALSE, NoText, "AttributeError")

\* analytics: .get on anything but a dict raises AttributeError
AnalyticsCompute(d) ==
    IF d.kind = "object"
    THEN Computed(TRUE, AnalyticsText(d), "")
    ELSE Computed(FALSE, NoText, "AttributeError")

\* top20: slicing a dict or None raises (TypeError; KeyError for a dict
\* from Python 3.12 on, caught alike); trader.get on an entry that is no
\* dict raises AttributeError and leaves the loop.
Top20Compute(d) ==
    IF d.kind \notin {"array", "string"}
    THEN Computed(FALSE, NoText, "TypeError")
    ELSE IF \E k \in 1..Len(Slice(d)) : ~Slice(d)[k].obj
         THEN Computed(FALSE, NoText, "AttributeError")
         ELSE Computed(TRUE, Top20Text(Slice(d)), "")

Compute(c, d) == IF c = "analytics" THEN AnalyticsCompute(d) ELSE Top20Compute(d)

\* the type_ each handler passes to fetch_hyperliquid
ResourceOf(c) == IF c = "analytics" THEN "openInterest" ELSE "leaderboard"

(* ------------------------------ state --------------------------------- *)

VARIABLES
    upstream,      \* what the API holds: resource type -> document
    width,         \* how many slots the environment uses at once
    application,   \* global application
    loop,          \* global loop
    HEADERS,       \* global HEADERS
    running,       \* the process is alive
    proc,          \* start-up: where the main thread is and what it has set up
    wh,            \* per slot: the webhook request
    task,          \* per slot: the update and its process_update coroutine
    top20Failed    \* history, kept where commands follow one another
                   \* (width = 1): a top20 command has failed in its fetch

vars ==
    <<upstream, width, application, loop, HEADERS, running, proc, wh, task, top20Failed>>

globals == <<application, loop, HEADERS, running, proc>>

env == <<upstream, width>>

Commands == {"start", "analytics", "top20"}

\* What a webhook request can carry: one of the commands, an update no
\* handler matches ("other"), a JSON body from which Update.de_json makes
\* no update (null, empty: "noupdate"), or a body on which parsing raises
\* (no JSON, or JSON that is no Update object: "malformed").
Bodies == Commands \cup {"other", "noupdate", "malformed"}

\* how a request or a reply send can end
FetchErrors == {"ConnectionError", "HTTPError", "JSONDecodeError"}

IdleTask ==
    [cmd |-> "none", pc |-> "idle", doc |-> NoDoc, pending |-> NoText,
     replies |-> <<>>, caught |-> "none", caughtMsg |-> "", escaped |-> "none",
     requests |-> 0, sleeps |-> 0]

\* A reply attempt: the text and whether the send returned (ok) or raised.
Reply(text, ok) == [text |-> text, ok |-> ok]

\* The loop thread is inside a synchronous fetch_hyperliquid call.
LoopBusy == \E u \in Slots : task[u].pc \in {"fetching", "sleeping"}

\* LoopFree with an awaited pause (asyncio.sleep) in fetch_hyperliquid: the
\* loop thread is given back while the pause lasts.
LoopFreeAsyncSleep ==
    proc.loopRunning /\ ~(\E u \in Slots : task[u].pc = "fetching")

\* The global loop is running and its thread is free to take up a
\* coroutine.
LoopFree == proc.loopRunning /\ ~LoopBusy

\* Start-up as a record: pc is the main thread's position, token and
\* hostname say whether TELEGRAM_TOKEN and RENDER_EXTERNAL_HOSTNAME are
\* set, handlers are the commands registered, route is the /webhook route,
\* webhookSet the URL registered with Telegram, serving the Flask server,
\* loopRunning the global loop.
Proc(pc, tok, host, hs, eh, ini, rt, ws, srv, lr) ==
    [pc |-> pc, token |-> tok, hostname |-> host, handlers |-> hs,
     errorHandler |-> eh, initialized |-> ini, route |-> rt,
     webhookSet |-> ws, serving |-> srv, loopRunning |-> lr]

\* What main() sets out to reach: everything registered, the server up
\* and the global loop running.
ProcAtWork ==
    Proc("forever", TRUE, TRUE, Commands, TRUE, TRUE, TRUE, TRUE, TRUE, TRUE)

InitGlobals ==
    /\ application = "Application"
    /\ loop = "loop"
    /\ HEADERS = "headers"
    /\ running = TRUE
    /\ proc = ProcAtWork

\* Either one slot and any document in one of the two resources, or every
\* slot and the plain documents.
Init ==
    /\ \/ /\ width = 1
          /\ upstream \in
               {[openInterest |-> d, leaderboard |-> PlainBoard] :
                    d \in ObjDocs \cup OtherDocs \cup {ArrDoc(<<>>)}}
               \cup
               {[openInterest |-> PlainOI, leaderboard |-> d] :
                    d \in {ArrDoc(s) : s \in ArrDocs} \cup OtherDocs \cup {PlainOI}}
       \/ /\ width = MaxInFlight
          /\ upstream = [openInterest |-> PlainOI, leaderboard |-> PlainBoard]
    /\ InitGlobals
    /\ wh = [u \in Slots |-> "none"]
    /\ task = [u \in Slots |-> IdleTask]
    /\ top20Failed = FALSE

(* ----------------------------- webhook -------------------------------- *)

\* webhook(): parse the body; an update is submitted to the global loop
\* (run_coroutine_threadsafe) and the request waits for its future.  The
\* parsing calls stand outside the try block: when request.get_json() or
\* Update.de_json raises, the request is answered with an HTTP error
\* ("rejected").  With application or loop still None the request ends in
\* an exception as well (application.bot, run_coroutine_threadsafe):
\* "error".
webhook(u, body) ==
    /\ running /\ proc.serving /\ proc.route
    /\ u <= width
    /\ wh[u] = "none" /\ task[u].pc = "idle"
    /\ IF body = "malformed"
       THEN /\ wh' = [wh EXCEPT ![u] = "rejected"]
            /\ task' = [task EXCEPT ![u] = [IdleTask EXCEPT !.cmd = body]]
       ELSE IF application # "Application" \/ (body # "noupdate" /\ loop # "loop")
       THEN /\ wh' = [wh EXCEPT ![u] = "error"]
            /\ UNCHANGED task
       ELSE IF body = "noupdate"
       THEN /\ wh' = [wh EXCEPT ![u] = "ok"]
            /\ UNCHANGED task
       ELSE /\ wh' = [wh EXCEPT ![u] = "waiting"]
            /\ task' = [task EXCEPT ![u] = [IdleTask EXCEPT !.cmd = body, !.pc = "queued"]]
    /\ UNCHANGED <<env, globals, top20Failed>>

\* future.result(timeout=10) returns: the coroutine is done, 'OK' is
\* returned, and the update, its future and the handler's locals are gone.
webhook_return(u) ==
    /\ running
    /\ wh[u] = "waiting" /\ task[u].pc = "done"
    /\ wh' = [wh EXCEPT ![u] = "none"]
    /\ task' = [task EXCEPT ![u] = IdleTask]
    /\ UNCHANGED <<env, globals, top20Failed>>

\* webhook_timeout without the try/except around future.result: the
\* TimeoutError leaves webhook() and the request ends in an error.
webhook_timeout_uncaught(u) ==
    /\ running
    /\ wh[u] = "waiting" /\ task[u].pc # "done"
    /\ wh' = [wh EXCEPT ![u] = "error"]
    /\ UNCHANGED <<env, globals, task, top20Failed>>

\* future.result(timeout=10) raises TimeoutError: logged, 'OK' returned;
\* the coroutine stays scheduled on the loop.
webhook_timeout(u) ==
    /\ running
    /\ wh[u] = "waiting" /\ task[u].pc # "done"
    /\ wh' = [wh EXCEPT ![u] = "timeout"]
    /\ UNCHANGED <<env, globals, task, top20Failed>>

\* A request that returned at once (no update, rejected) or on its
\* timeout: once the coroutine has ended, nothing of it is left.
forget(u) ==
    /\ wh[u] \in {"ok", "timeout", "rejected"}
    /\ task[u].pc \in {"idle", "done"}
    /\ wh' = [wh EXCEPT ![u] = "none"]
    /\ task' = [task EXCEPT ![u] = IdleTask]
    /\ UNCHANGED <<env, globals, top20Failed>>

(* ------------------------ handlers on the loop ------------------------ *)

\* except Exception as e: the handler logs and starts the error reply
\* f"Error al obtener <cmd>: {str(e)}".  src says where e was raised.
Excepted(t, src, msg) ==
    [t EXCEPT !.pc = "send_except", !.pending = ErrorText(t.cmd, msg),
              !.caught = src, !.caughtMsg = msg]

\* An exception leaves the handler: process_update hands it to
\* error_handler, which (the update has a chat) starts the generic message.
Escaped(t, msg) ==
    [t EXCEPT !.pc = "send_errh", !.pending = GenericText, !.escaped = msg]

\* The coroutine ends; its locals are dropped.
Ended(t) == [t EXCEPT !.pc = "done", !.pending = NoText, !.doc = NoDoc]

\* start that asks the upstream before it answers.
start_fetching(u) ==
    /\ running /\ LoopFree
    /\ task[u].pc = "queued" /\ task[u].cmd = "start"
    /\ task' = [task EXCEPT ![u] = [@ EXCEPT !.pc = "fetching", !.requests = @ + 1]]
    /\ UNCHANGED <<env, globals, wh, top20Failed>>

\* start(): no fetch, the help text is sent at once.
start(u) ==
    /\ running /\ LoopFree
    /\ task[u].pc = "queued" /\ task[u].cmd = "start"
    /\ task' = [task EXCEPT ![u] = [@ EXCEPT !.pc = "send_start", !.pending = HelpText]]
    /\ UNCHANGED <<env, globals, wh, top20Failed>>

\* An update no CommandHandler matches: process_update does nothing.
unhandled(u) ==
    /\ running /\ LoopFree
    /\ task[u].pc = "queued" /\ task[u].cmd = "other"
    /\ task' = [task EXCEPT ![u] = Ended(@)]
    /\ UNCHANGED <<env, globals, wh, top20Failed>>

\* fetch_post with every handler on a thread of its own: the request is
\* posted whatever the other commands are doing.
fetch_post_threaded(u) ==
    /\ running
    /\ task[u].pc = "queued" /\ task[u].cmd \in {"analytics", "top20"}
    /\ task' = [task EXCEPT ![u] = [@ EXCEPT !.pc = "fetching", !.requests = @ + 1]]
    /\ UNCHANGED <<env, globals, wh, top20Failed>>

\* analytics()/top20() enter their try block and call fetch_hyperliquid,
\* which posts one request (requests.post) and blocks the loop thread.
fetch_post(u) ==
    /\ running /\ LoopFree
    /\ task[u].pc = "queued" /\ task[u].cmd \in {"analytics", "top20"}
    /\ task' = [task EXCEPT ![u] = [@ EXCEPT !.pc = "fetching", !.requests = @ + 1]]
    /\ UNCHANGED <<env, globals, wh, top20Failed>>

\* fetch_raise without the try/except around the fetch.
fetch_raise_uncaught(u, e) ==
    /\ running
    /\ task[u].pc = "fetching"
    /\ task' = [task EXCEPT ![u] = Escaped(@, e)]
    /\ top20Failed' = (top20Failed \/ (task[u].cmd = "top20" /\ width = 1))
    /\ UNCHANGED <<env, globals, wh>>

\* fetch_raise where a failed top20 fetch leaves HEADERS changed.
fetch_raise_headers(u, e) ==
    /\ running
    /\ task[u].pc = "fetching"
    /\ task' = [task EXCEPT ![u] = Excepted(@, "fetch", e)]
    /\ top20Failed' = (top20Failed \/ (task[u].cmd = "top20" /\ width = 1))
    /\ HEADERS' = IF task[u].cmd = "top20" THEN "changed" ELSE HEADERS
    /\ UNCHANGED <<env, application, loop, running, proc, wh>>

\* fetch_raise that sleeps and posts the request once more before it
\* gives up.
fetch_raise_retry(u, e) ==
    /\ running
    /\ task[u].pc = "fetching"
    /\ task' = [task EXCEPT ![u] =
                  IF task[u].requests < 2
                  THEN [@ EXCEPT !.requests = @ + 1]
                  ELSE Excepted(@, "fetch", e)]
    /\ top20Failed' = (top20Failed \/ (task[u].cmd = "top20" /\ width = 1 /\ task[u].requests >= 2))
    /\ UNCHANGED <<env, globals, wh>>

\* requests.post, raise_for_status or response.json raises: the exception
\* reaches the handler's except branch at once.
fetch_raise(u, e) ==
    /\ running
    /\ task[u].pc = "fetching"
    /\ task' = [task EXCEPT ![u] = Excepted(@, "fetch", e)]
    /\ top20Failed' = (top20Failed \/ (task[u].cmd = "top20" /\ width = 1))
    /\ UNCHANGED <<env, globals, wh>>

\* The request succeeded and parsed: time.sleep(0.5) begins.
fetch_ok(u) ==
    /\ running
    /\ task[u].pc = "fetching"
    /\ task' = [task EXCEPT ![u] =
                  [@ EXCEPT !.pc = "sleeping", !.sleeps = @ + 1,
                            !.doc = upstream[ResourceOf(task[u].cmd)]]]
    /\ UNCHANGED <<env, globals, wh, top20Failed>>

\* The sleep is over, fetch_hyperliquid returns, the handler computes and
\* formats its text and starts the reply; an exception on the way goes to
\* the except branch.
compute(u) ==
    /\ running
    /\ task[u].pc = "sleeping"
    /\ LET r == Compute(task[u].cmd, task[u].doc)
       IN task' = [task EXCEPT ![u] =
                     IF r.ok
                     THEN [@ EXCEPT !.pc = "send_try", !.pending = r.text]
                     ELSE Excepted(@, "compute", r.msg)]
    /\ UNCHANGED <<env, globals, wh, top20Failed>>

Sending == {"send_start", "send_try", "send_except", "send_errh"}

Sent(t, ok) == [t EXCEPT !.replies = Append(@, Reply(t.pending, ok))]

\* reply_sent where the try block's reply is followed by the error reply.
reply_sent_twice(u) ==
    /\ running /\ LoopFree
    /\ task[u].pc \in Sending
    /\ task' = [task EXCEPT ![u] =
                  IF task[u].pc = "send_try"
                  THEN Excepted(Sent(@, TRUE), "send", "SendError")
                  ELSE Ended(Sent(@, TRUE))]
    /\ UNCHANGED <<env, globals, wh, top20Failed>>

\* A reply send returns: the handler (or error_handler) returns.
reply_sent(u) ==
    /\ running /\ LoopFree
    /\ task[u].pc \in Sending
    /\ task' = [task EXCEPT ![u] = Ended(Sent(@, TRUE))]
    /\ UNCHANGED <<env, globals, wh, top20Failed>>

\* start's reply_text raises: nothing catches it in start.
start_reply_raised(u) ==
    /\ running /\ LoopFree
    /\ task[u].pc = "send_start"
    /\ task' = [task EXCEPT ![u] = Escaped(Sent(@, FALSE), "SendError")]
    /\ UNCHANGED <<env, globals, wh, top20Failed>>

\* The reply inside the try block raises: the except branch catches it.
try_reply_raised(u) ==
    /\ running /\ LoopFree
    /\ task[u].pc = "send_try"
    /\ task' = [task EXCEPT ![u] = Excepted(Sent(@, FALSE), "send", "SendError")]
    /\ UNCHANGED <<env, globals, wh, top20Failed>>

\* The error reply inside the except branch raises: it leaves the handler.
except_reply_raised(u) ==
    /\ running /\ LoopFree
    /\ task[u].pc = "send_except"
    /\ task' = [task EXCEPT ![u] = Escaped(Sent(@, FALSE), "SendError")]
    /\ UNCHANGED <<env, globals, wh, top20Failed>>

\* error_handler's send_message raises: logged, nothing more is sent.
error_handler_raised(u) ==
    /\ running /\ LoopFree
    /\ task[u].pc = "send_errh"
    /\ task' = [task EXCEPT ![u] = Ended(Sent(@, FALSE))]
    /\ UNCHANGED <<env, globals, wh, top20Failed>>

Next ==
    \E u \in Slots :
        \/ \E body \in Bodies : webhook(u, body)
        \/ webhook_return(u)
        \/ webhook_timeout(u)
        \/ forget(u)
        \/ start(u)
        \/ unhandled(u)
        \/ fetch_post(u)
        \/ \E e \in FetchErrors : fetch_raise(u, e)
        \/ fetch_ok(u)
        \/ compute(u)
        \/ reply_sent(u)
        \/ start_reply_raised(u)
        \/ try_reply_raised(u)
        \/ except_reply_raised(u)
        \/ error_handler_raised(u)

Spec == Init /\ [][Next]_vars

\* Several commands in flight at once over a well-formed upstream.
InitConc == Init /\ width = MaxInFlight

SpecConc == InitConc /\ [][Next]_vars

(* -------------------------- long leaderboards -------------------------- *)

\* The entry of the trader ranked k: size and coin tell the entries apart.
RankedEntry(k) == ObjEntry(EFields, k, k % 2 = 1, k)

\* Leaderboards of up to MaxLong traders: in rank order, in reverse rank
\* order, and in rank order with something that is no object after the
\* twentieth entry.
LongBoards ==
    {[k \in 1..n |-> RankedEntry(k)] : n \in 0..MaxLong}
    \cup {[k \in 1..n |-> RankedEntry(n + 1 - k)] : n \in 2..MaxLong}
    \cup {[k \in 1..n |-> IF k > TopN THEN NonObjEntry ELSE RankedEntry(k)] :
              n \in (TopN + 1)..MaxLong}

\* One command at a time over a leaderboard of any length up to MaxLong.
InitBoard ==
    /\ width = 1
    /\ upstream \in {[openInterest |-> PlainOI, leaderboard |-> ArrDoc(b)] :
                        b \in LongBoards}
    /\ InitGlobals
    /\ wh = [u \in Slots |-> "none"]
    /\ task = [u \in Slots |-> IdleTask]
    /\ top20Failed = FALSE

SpecBoard == InitBoard /\ [][Next]_vars

(* ------------------------------ start-up ------------------------------ *)

\* The process from the moment the module is run: the token may be set or
\* not, RENDER_EXTERNAL_HOSTNAME may be set or not, nothing is bound yet.
InitMain ==
    /\ width = MaxInFlight
    /\ upstream = [openInterest |-> PlainOI, leaderboard |-> PlainBoard]
    /\ application = "unbound" /\ loop = "unbound" /\ HEADERS = "unbound"
    /\ running = TRUE
    /\ \E token, hostname \in BOOLEAN :
           proc = Proc("import", token, hostname, {}, FALSE, FALSE, FALSE,
                       FALSE, FALSE, FALSE)
    /\ wh = [u \in Slots |-> "none"]
    /\ task = [u \in Slots |-> IdleTask]
    /\ top20Failed = FALSE

\* An uncaught exception in the main thread before the server thread
\* exists: the process ends.
Stopped == [proc EXCEPT !.pc = "stopped"]

\* import_token without the check: a missing token is passed on.
import_token_unchecked ==
    /\ running /\ proc.pc = "import"
    /\ proc' = [proc EXCEPT !.pc = "globals"]
    /\ UNCHANGED <<env, application, loop, HEADERS, running, wh, task, top20Failed>>

\* TOKEN = os.getenv('TELEGRAM_TOKEN'); if not TOKEN: raise ValueError
import_token ==
    /\ running /\ proc.pc = "import"
    /\ IF proc.token
       THEN proc' = [proc EXCEPT !.pc = "globals"] /\ UNCHANGED running
       ELSE proc' = Stopped /\ running' = FALSE
    /\ UNCHANGED <<env, application, loop, HEADERS, wh, task, top20Failed>>

\* application = None; loop = None; HEADERS = {...}
import_globals ==
    /\ running /\ proc.pc = "globals"
    /\ application' = "None" /\ loop' = "None" /\ HEADERS' = "headers"
    /\ proc' = [proc EXCEPT !.pc = "route"]
    /\ UNCHANGED <<env, running, wh, task, top20Failed>>

\* import_route with the server started where the route is declared.
import_route_serving ==
    /\ running /\ proc.pc = "route"
    /\ proc' = [proc EXCEPT !.pc = "main", !.route = TRUE, !.serving = TRUE]
    /\ UNCHANGED <<env, application, loop, HEADERS, running, wh, task, top20Failed>>

\* @app.route('/webhook', methods=['POST']), then asyncio.run(main())
\* enters main() and setup_application().
import_route ==
    /\ running /\ proc.pc = "route"
    /\ proc' = [proc EXCEPT !.pc = "main", !.route = TRUE]
    /\ UNCHANGED <<env, application, loop, HEADERS, running, wh, task, top20Failed>>

\* loop = asyncio.new_event_loop(); asyncio.set_event_loop(loop)
setup_loop ==
    /\ running /\ proc.pc = "main"
    /\ loop' = "loop"
    /\ proc' = [proc EXCEPT !.pc = "build"]
    /\ UNCHANGED <<env, application, HEADERS, running, wh, task, top20Failed>>

\* application = Application.builder().token(TOKEN).build()
setup_build ==
    /\ running /\ proc.pc = "build"
    /\ application' = "Application"
    /\ proc' = [proc EXCEPT !.pc = "add_start"]
    /\ UNCHANGED <<env, loop, HEADERS, running, wh, task, top20Failed>>

\* application.add_handler(CommandHandler("start", start))
add_start ==
    /\ running /\ proc.pc = "add_start"
    /\ proc' = [proc EXCEPT !.pc = "add_analytics", !.handlers = @ \cup {"start"}]
    /\ UNCHANGED <<env, application, loop, HEADERS, running, wh, task, top20Failed>>

\* application.add_handler(CommandHandler("analytics", analytics))
add_analytics ==
    /\ running /\ proc.pc = "add_analytics"
    /\ proc' = [proc EXCEPT !.pc = "add_top20", !.handlers = @ \cup {"analytics"}]
    /\ UNCHANGED <<env, application, loop, HEADERS, running, wh, task, top20Failed>>

\* application.add_handler(CommandHandler("top20", top20))
add_top20 ==
    /\ running /\ proc.pc = "add_top20"
    /\ proc' = [proc EXCEPT !.pc = "add_error_handler", !.handlers = @ \cup {"top20"}]
    /\ UNCHANGED <<env, application, loop, HEADERS, running, wh, task, top20Failed>>

\* application.add_error_handler(error_handler)
add_error_handler ==
    /\ running /\ proc.pc = "add_error_handler"
    /\ proc' = [proc EXCEPT !.pc = "initialize", !.errorHandler = TRUE]
    /\ UNCHANGED <<env, application, loop, HEADERS, running, wh, task, top20Failed>>

\* await application.initialize() returns
setup_initialize ==
    /\ running /\ proc.pc = "initialize"
    /\ proc' = [proc EXCEPT !.pc = "hostname", !.initialized = TRUE]
    /\ UNCHANGED <<env, application, loop, HEADERS, running, wh, task, top20Failed>>

\* await application.initialize() raises (it asks Telegram for the bot's
\* identity); main() has no handler for it.
setup_initialize_raised ==
    /\ running /\ proc.pc = "initialize"
    /\ proc' = Stopped /\ running' = FALSE
    /\ UNCHANGED <<env, application, loop, HEADERS, wh, task, top20Failed>>

\* if hostname: await application.bot.set_webhook(webhook_url) returns
main_set_webhook ==
    /\ running /\ proc.pc = "hostname" /\ proc.hostname
    /\ proc' = [proc EXCEPT !.pc = "serve", !.webhookSet = TRUE]
    /\ UNCHANGED <<env, application, loop, HEADERS, running, wh, task, top20Failed>>

\* if hostname: await application.bot.set_webhook(webhook_url) raises
main_set_webhook_raised ==
    /\ running /\ proc.pc = "hostname" /\ proc.hostname
    /\ proc' = Stopped /\ running' = FALSE
    /\ UNCHANGED <<env, application, loop, HEADERS, wh, task, top20Failed>>

\* RENDER_EXTERNAL_HOSTNAME is not set: no webhook URL is registered
main_no_hostname ==
    /\ running /\ proc.pc = "hostname" /\ ~proc.hostname
    /\ proc' = [proc EXCEPT !.pc = "serve"]
    /\ UNCHANGED <<env, application, loop, HEADERS, running, wh, task, top20Failed>>

\* loop.run_in_executor(None, lambda: app.run(...)): the Flask server
\* starts on an executor thread and serves /webhook from now on.
main_serve ==
    /\ running /\ proc.pc = "serve"
    /\ proc' = [proc EXCEPT !.pc = "run_forever", !.serving = TRUE]
    /\ UNCHANGED <<env, application, loop, HEADERS, running, wh, task, top20Failed>>

\* main() is a coroutine driven by asyncio.run(main()): when it calls
\* loop.run_forever() a loop is already running in its thread.
MainInsideRunningLoop == TRUE

\* loop.run_forever(): with a loop already running in the calling thread
\* it raises RuntimeError and the global loop never runs; main() ends, and
\* the process lives on with the server thread.
main_run_forever ==
    /\ running /\ proc.pc = "run_forever"
    /\ proc' = IF MainInsideRunningLoop
               THEN [proc EXCEPT !.pc = "raised"]
               ELSE [proc EXCEPT !.pc = "forever", !.loopRunning = TRUE]
    /\ UNCHANGED <<env, application, loop, HEADERS, running, wh, task, top20Failed>>

\* The whole program from its first line: the main thread's steps and the
\* webhook requests the server thread takes.  The steps of the loop thread
\* (start, fetch_post, ..., error_handler_raised) need LoopFree or follow a
\* step that does; the global loop never runs here, so none of them is a
\* step of the program.
NextMain ==
    \/ import_token
    \/ import_globals
    \/ import_route
    \/ setup_loop
    \/ setup_build
    \/ add_start
    \/ add_analytics
    \/ add_top20
    \/ add_error_handler
    \/ setup_initialize
    \/ setup_initialize_raised
    \/ main_set_webhook
    \/ main_set_webhook_raised
    \/ main_no_hostname
    \/ main_serve
    \/ main_run_forever
    \/ \E u \in Slots :
           \/ \E body \in Bodies : webhook(u, body)
           \/ webhook_timeout(u)
           \/ forget(u)

SpecMain == InitMain /\ [][NextMain]_vars

\* The main thread keeps going while it can, and a webhook wait ends.
SpecMainFair == SpecMain /\ WF_vars(NextMain)

(* ------------------------- reading the state -------------------------- *)

Done(u) == task[u].pc = "done"

\* reply sends of u that returned
Delivered(u) == {i \in DOMAIN task[u].replies : task[u].replies[i].ok}

\* the text of the first reply u attempts (pending until the send ends)
FirstText(u) ==
    IF task[u].replies = <<>> THEN task[u].pending ELSE task[u].replies[1].text

\* fetch_hyperliquid has returned a document to u's handler
Fetched(u) == task[u].sleeps = 1 /\ task[u].pc # "sleeping"

\* u's first reply returned and nothing else was sent: the command Replied
RepliedWith(u, text) == Done(u) /\ task[u].replies = <<Reply(text, TRUE)>>

(* ------------------------------- C1 ----------------------------------- *)

\* C1 as stated: every start/analytics/top20 update that has been handled
\* got exactly one reply, whatever the fetch and the sends did.
C1_ExactlyOneReply ==
    \A u \in Slots :
        (task[u].cmd \in Commands /\ Done(u)) => Cardinality(Delivered(u)) = 1

\* C1 as amended: at most one reply send of a command returns and nothing
\* is sent after it; once the command is handled, none has returned only
\* when every send attempted raised, the last of them (the second or the
\* third attempt) being error_handler's generic message.
C1_AtMostOneReply ==
    \A u \in Slots :
        task[u].cmd \in Commands =>
            LET r == task[u].replies
                n == Len(r)
            IN /\ Cardinality(Delivered(u)) <= 1
               /\ \A i \in DOMAIN r : r[i].ok => (i = n /\ Done(u))
               /\ Done(u) =>
                    /\ n >= 1
                    /\ Delivered(u) = {} =>
                         /\ n \in (IF task[u].cmd = "start" THEN {2} ELSE {2, 3})
                         /\ r[n].text = GenericText

\* A handled command whose first send raised and whose second returned.
C1_Witness ==
    \E u \in Slots :
        /\ task[u].cmd \in Commands /\ Done(u)
        /\ Len(task[u].replies) = 2
        /\ ~task[u].replies[1].ok /\ task[u].replies[2].ok

(* ------------------------------- C2 ----------------------------------- *)

\* C2: an exception raised while an analytics or top20 command fetches or
\* computes is caught by the handler, whose first reply is the error string
\* embedding that exception's message; the only exception that ever leaves
\* a handler is the one a reply send raised.
C2_ExceptionsCaught ==
    \A u \in Slots :
        /\ task[u].escaped \in {"none", "SendError"}
        /\ task[u].caught \in {"fetch", "compute"} =>
             /\ task[u].cmd \in {"analytics", "top20"}
             /\ task[u].pc \in {"send_except", "send_errh", "done"}
             /\ FirstText(u) = ErrorText(task[u].cmd, task[u].caughtMsg)
             /\ task[u].escaped # task[u].caughtMsg
        /\ (task[u].requests = 1 /\ task[u].sleeps = 0 /\ task[u].pc # "fetching")
             => task[u].caught = "fetch"

\* A command whose document made the computation raise has ended with
\* its error reply delivered.
C2_Witness ==
    \E u \in Slots :
        /\ task[u].caught = "compute"
        /\ RepliedWith(u, ErrorText(task[u].cmd, "AttributeError"))

(* ------------------------------- C3 ----------------------------------- *)

\* C3: in every state, so also once a top20 command has failed in its
\* fetch: the process is running, application, loop and HEADERS are what
\* they were, and an analytics command whose fetch returns an object has
\* the success text built from that object as its first reply, and has
\* Replied with it when that send returns.
C3_ErrorsCommandScoped ==
    /\ running
    /\ application = "Application" /\ loop = "loop" /\ HEADERS = "headers"
    /\ \A u \in Slots :
         (task[u].cmd = "analytics" /\ Fetched(u)
             /\ upstream.openInterest.kind = "object") =>
            /\ FirstText(u) = AnalyticsText(upstream.openInterest)
            /\ (task[u].replies # <<>> /\ task[u].replies[1].ok) =>
                 RepliedWith(u, AnalyticsText(upstream.openInterest))

\* With one slot: a top20 failed in its fetch, was forgotten, and the
\* analytics command that followed has Replied.
C3_Witness ==
    /\ top20Failed /\ width = 1
    /\ \E u \in Slots :
         /\ task[u].cmd = "analytics"
         /\ RepliedWith(u, AnalyticsText(upstream.openInterest))

(* ------------------------------- C4 ----------------------------------- *)

\* the analytics texts u has attempted to send
AnalyticsReplies(u) ==
    {t \in {task[u].replies[i].text : i \in DOMAIN task[u].replies} :
        t.tmpl = "analytics"}

\* C4 as stated: in every analytics reply whose three notionals are
\* numbers, TOTAL NOTIONAL = LONG POSITIONS + SHORT POSITIONS.
C4_TotalIsSum ==
    \A u \in Slots : \A t \in AnalyticsReplies(u) :
        (t.vals[1].isNum /\ t.vals[2].isNum /\ t.vals[3].isNum) =>
            t.vals[1].n = t.vals[2].n + t.vals[3].n

(* ------------------------------- C5 ----------------------------------- *)

\* C5 as stated: a numeric GLOBAL BIAS in an analytics reply is within
\* [-100, 100], and is 0 when the reply's TOTAL NOTIONAL is 0.
C5_BiasInRange ==
    \A u \in Slots : \A t \in AnalyticsReplies(u) :
        t.vals[4].isNum =>
            /\ t.vals[4].n >= -100 /\ t.vals[4].n <= 100
            /\ (t.vals[1].isNum /\ t.vals[1].n = 0) => t.vals[4].n = 0

(* ------------------------------- C6 ----------------------------------- *)

\* C6: a start command issues no request and no pacing sleep and holds no
\* document; the first thing it sends is the static help text naming
\* start, analytics and top20, whatever the upstream holds, and when that
\* send returns the command has Replied with it.
C6_StartNoFetch ==
    \A u \in Slots :
        task[u].cmd = "start" =>
            /\ task[u].requests = 0 /\ task[u].sleeps = 0
            /\ task[u].pc \notin {"fetching", "sleeping", "send_try", "send_except"}
            /\ task[u].doc = NoDoc /\ task[u].caught = "none"
            /\ task[u].pc # "queued" =>
                 /\ FirstText(u) = HelpText
                 /\ FirstText(u).lists = Commands
                 /\ (task[u].replies # <<>> /\ task[u].replies[1].ok) =>
                      RepliedWith(u, HelpText)

\* start has Replied with the help text while the upstream's openInterest
\* document is malformed.
C6_Witness ==
    /\ upstream.openInterest.kind # "object"
    /\ \E u \in Slots : task[u].cmd = "start" /\ RepliedWith(u, HelpText)

(* ------------------------------- C7 ----------------------------------- *)

\* C7: a command issues at most one request; when the request fails the
\* handler is in its except branch (or beyond) with exactly one request
\* made and no pacing sleep taken; a sleep is taken only after a request
\* that succeeded.
C7_NoRetry ==
    \A u \in Slots :
        /\ task[u].requests <= 1
        /\ task[u].sleeps <= task[u].requests
        /\ task[u].caught = "fetch" =>
             /\ task[u].requests = 1 /\ task[u].sleeps = 0
             /\ task[u].caughtMsg \in FetchErrors
             /\ task[u].pc \in {"send_except", "send_errh", "done"}
        /\ (task[u].requests = 1 /\ task[u].sleeps = 0 /\ task[u].pc # "fetching")
             => task[u].caught = "fetch"

\* A command whose request failed has ended with its error reply.
C7_Witness ==
    \E u \in Slots :
        /\ task[u].caught = "fetch" /\ task[u].requests = 1
        /\ RepliedWith(u, ErrorText(task[u].cmd, "HTTPError"))

(* ------------------------------- C8 ----------------------------------- *)

\* the upstream document of u's command is well-formed but lacks a field
LacksField(u) ==
    \/ /\ task[u].cmd = "analytics"
       /\ upstream.openInterest.kind = "object"
       /\ upstream.openInterest.has # AFields
    \/ /\ task[u].cmd = "top20"
       /\ upstream.leaderboard.kind = "array"
       /\ \A k \in DOMAIN upstream.leaderboard.items :
              upstream.leaderboard.items[k].obj
       /\ \E k \in DOMAIN Slice(upstream.leaderboard) :
              Slice(upstream.leaderboard)[k].has # EFields

\* the success text with every absent field defaulted
Defaulted(u) ==
    IF task[u].cmd = "analytics"
    THEN Text("analytics",
              [k \in 1..4 |->
                  LET f == <<"totalNotional", "longNotional",
                             "shortNotional", "bias">>[k]
                  IN IF f \in upstream.openInterest.has
                     THEN Num(upstream.openInterest.val[f]) ELSE NA],
              <<>>, "", {})
    ELSE Text("top20", <<>>,
              [k \in DOMAIN Slice(upstream.leaderboard) |->
                  LET e == Slice(upstream.leaderboard)[k]
                  IN [i |-> k,
                      size |-> IF "size" \in e.has THEN Num(e.size) ELSE NA,
                      direction |-> IF "isLong" \in e.has /\ ~e.isLong
                                    THEN "SHORT" ELSE "LONG",
                      coin |-> IF "coin" \in e.has THEN Str(e.coin) ELSE NA]],
              "", {})

\* C8: when the fetched document is well-formed but lacks an expected
\* field, nothing raises before the reply: the first reply is the success
\* text with the field defaulted, the except branch is entered only if that
\* send raises, and when the send returns the command has Replied.
C8_MissingFieldDefaulted ==
    \A u \in Slots :
        (LacksField(u) /\ Fetched(u)) =>
            /\ task[u].caught \in {"none", "send"}
            /\ FirstText(u) = Defaulted(u)
            /\ (task[u].replies # <<>> /\ task[u].replies[1].ok) =>
                 RepliedWith(u, Defaulted(u))

\* A top20 command over a leaderboard whose entry lacks all three fields
\* has Replied with the defaulted line.
C8_Witness ==
    \E u \in Slots :
        /\ task[u].cmd = "top20" /\ LacksField(u)
        /\ upstream.leaderboard.items[1].has = {}
        /\ RepliedWith(u, Defaulted(u))

(* ------------------------------- C9 ----------------------------------- *)

\* the upstream document of u's command is wholly malformed
Malformed(u) ==
    \/ task[u].cmd = "analytics" /\ upstream.openInterest.kind # "object"
    \/ task[u].cmd = "top20" /\ upstream.leaderboard.kind # "array"

\* C9 as stated: a command that fetched a wholly malformed document fails
\* with an error reply and never sends a success reply.
C9_MalformedIsFatal ==
    \A u \in Slots :
        (Malformed(u) /\ Fetched(u)) =>
            /\ task[u].caught = "compute"
            /\ FirstText(u).tmpl = "error"

(* ------------------------------- C10 ---------------------------------- *)

\* the leaderboard is an array in which some entry cannot be processed
HasFailingEntry ==
    /\ upstream.leaderboard.kind = "array"
    /\ \E k \in DOMAIN Slice(upstream.leaderboard) :
           ~Slice(upstream.leaderboard)[k].obj

\* C10 as stated: when one leaderboard entry fails, top20 skips it and
\* still sends its success reply.
C10_SkipFailingUser ==
    \A u \in Slots :
        (task[u].cmd = "top20" /\ HasFailingEntry /\ Fetched(u)) =>
            /\ task[u].caught # "compute"
            /\ FirstText(u).tmpl = "top20"

(* ------------------------------- C11 ---------------------------------- *)

\* slots whose upstream request has been posted and has not yet returned
InFlight == {u \in Slots : task[u].pc = "fetching"}

\* slots inside the pause that follows a successful request
Pausing == {u \in Slots : task[u].pc = "sleeping"}

\* C11: upstream requests are sequential and paced. At most one request is
\* in flight at any time, no request is in flight while the pause after a
\* successful request lasts, a command posts at most one request, and a
\* handler that has got its document has been through the pause.
C11_PacedSequential ==
    /\ Cardinality(InFlight) <= 1
    /\ Cardinality(Pausing) <= 1
    /\ Pausing # {} => InFlight = {}
    /\ \A u \in Slots :
           /\ task[u].requests <= 1
           /\ task[u].sleeps <= task[u].requests
           /\ task[u].doc # NoDoc => task[u].sleeps = 1

\* C11 witness: one command is in the pause after its successful request
\* while another command that needs a request of its own is waiting.
C11_Witness ==
    \E u, v \in Slots :
        /\ u # v
        /\ task[u].pc = "sleeping" /\ task[u].doc # NoDoc
        /\ task[v].pc = "queued" /\ task[v].cmd \in {"analytics", "top20"}

(* ------------------------------- C12 ---------------------------------- *)

\* this step is a step of v's handler (not the arrival of v's update and
\* not the clearing of v's slot)
HandlerStep(v) == task[v].pc \notin {"idle", "done"} /\ task'[v] # task[v]

\* u has posted its request and its reply has not been issued yet
BeforeReply(u) == task[u].pc \in {"fetching", "sleeping"}

\* the reply that answers u's fetch is being sent
ReplyInFlight(u) == task[u].pc \in {"send_try", "send_except"}

\* C12 as stated: from its fetch to the end of its reply no step of
\* another command runs.
C12_NonInterleaved ==
    [][\A u, v \in Slots :
          (u # v /\ (BeforeReply(u) \/ ReplyInFlight(u))) => ~HandlerStep(v)]_vars

\* C12 amended: from a command's fetch until its reply is issued no step
\* of another command runs, and the reply being sent is the one computed
\* from the document the command itself fetched; while the reply send is
\* in flight other commands do run.
C12_UnitUntilReplyIssued ==
    /\ [][\A u, v \in Slots : (u # v /\ BeforeReply(u)) => ~HandlerStep(v)]_vars
    /\ [](\A u \in Slots :
             task[u].pc = "send_try" =>
                 /\ task[u].doc # NoDoc
                 /\ task[u].pending = Compute(task[u].cmd, task[u].doc).text)

\* C12 witness: an analytics and a top20 command hold their own documents;
\* the analytics reply is being sent, computed from the analytics document,
\* while top20 is inside its fetch.
C12_Witness ==
    \E u, v \in Slots :
        /\ u # v
        /\ task[u].cmd = "analytics" /\ task[v].cmd = "top20"
        /\ task[u].pc = "send_try" /\ task[v].pc = "sleeping"
        /\ task[u].doc = upstream.openInterest
        /\ task[v].doc = upstream.leaderboard
        /\ task[u].pending = AnalyticsText(task[u].doc)

(* ------------------------------- C13 ---------------------------------- *)

\* C13 as stated, in its weakest reading: a command whose webhook wait has
\* expired still runs to its end.
C13_TimeoutStillEnds ==
    \A u \in Slots : (wh[u] = "timeout") ~> Done(u)

(* ------------------------------- C14 ---------------------------------- *)

\* C14: over a leaderboard of n entries (JSON objects, as far as top20
\* reads them) the text top20 replies with has exactly min(n, 20) lines,
\* and line k carries the number k and the size, direction and coin of
\* the k-th entry of the upstream array ('N/A' and LONG where the entry
\* lacks the field); nothing of an entry after the twentieth is in it.
C14_OrderedTruncated ==
    \A u \in Slots :
        LET items == upstream.leaderboard.items
            n == Len(items)
            m == IF n < TopN THEN n ELSE TopN
        IN (/\ task[u].cmd = "top20" /\ Fetched(u)
            /\ upstream.leaderboard.kind = "array"
            /\ \A k \in 1..m : items[k].obj) =>
               LET lines == FirstText(u).lines
               IN /\ FirstText(u).tmpl = "top20"
                  /\ Len(lines) = m
                  /\ \A k \in 1..m :
                         /\ lines[k].i = k
                         /\ lines[k].size =
                                (IF "size" \in items[k].has
                                 THEN Num(items[k].size) ELSE NA)
                         /\ lines[k].coin =
                                (IF "coin" \in items[k].has
                                 THEN Str(items[k].coin) ELSE NA)
                         /\ lines[k].direction =
                                (IF "isLong" \in items[k].has /\ ~items[k].isLong
                                 THEN "SHORT" ELSE "LONG")

\* C14 witness: the leaderboard has more than twenty entries, in reverse
\* rank order, and top20 has replied with its twenty lines.
C14_Witness ==
    \E u \in Slots :
        /\ Len(upstream.leaderboard.items) > TopN
        /\ upstream.leaderboard.items[1].size > TopN
        /\ Done(u) /\ task[u].cmd = "top20"
        /\ task[u].replies # <<>> /\ task[u].replies[1].ok
        /\ Len(task[u].replies[1].text.lines) = TopN

(* ------------------------------- C15 ---------------------------------- *)

\* C15: without TELEGRAM_TOKEN the process gets no further than the token
\* check: no handler and no error handler is registered, the application
\* is not built, /webhook is not declared, no webhook URL is registered,
\* the server is not started and no request is taken.
C15_MissingTokenFatal ==
    ~proc.token =>
        /\ proc.pc \in {"import", "stopped"}
        /\ proc.handlers = {} /\ ~proc.errorHandler /\ ~proc.initialized
        /\ application = "unbound" /\ loop = "unbound"
        /\ ~proc.route /\ ~proc.webhookSet /\ ~proc.serving
        /\ \A u \in Slots : wh[u] = "none" /\ task[u] = IdleTask

\* C15 witness: the token is missing and the process has stopped.
C15_Witness == ~proc.token /\ proc.pc = "stopped" /\ ~running

(* ------------------------------- C16 ---------------------------------- *)

\* C16 as stated: once main() has started the server and gone on, the
\* global loop is running.
C16_LoopRunsOnceServing ==
    (proc.serving /\ proc.pc # "run_forever") => proc.loopRunning

(* ------------------------------- C17 ---------------------------------- *)

\* C17 as stated: a webhook request never ends in anything but 'OK': it
\* is waiting, or it has returned 'OK' at once with no work submitted
\* ("ok"), on its timeout ("timeout") or after the coroutine ended (the
\* slot is free again).
C17_WebhookAlwaysOK ==
    \A u \in Slots :
        /\ wh[u] \in {"none", "waiting", "ok", "timeout"}
        /\ wh[u] \in {"none", "ok"} => task[u] = IdleTask

\* C17 amended: a request whose body parses to an update waits and returns
\* 'OK' on its timeout or after the coroutine ended, whatever the handler
\* did, and never ends in an error; a body that parses to no update
\* returns 'OK' with no work submitted; only a body on which parsing
\* raises is answered with an HTTP error, and no work is submitted for it.
C17_ParsedAlwaysOK ==
    \A u \in Slots :
        /\ wh[u] \in {"none", "waiting", "ok", "timeout", "rejected"}
        /\ wh[u] \in {"none", "ok"} => task[u] = IdleTask
        /\ wh[u] \in {"waiting", "timeout"} <=> task[u].cmd \in Commands \cup {"other"}
        /\ wh[u] = "rejected" <=> task[u].cmd = "malformed"
        /\ wh[u] = "rejected" => task[u].pc = "idle"

\* C17 witness: one request returned 'OK' on its timeout and its handler
\* then raised; another request carried no update and returned 'OK'.
C17_Witness ==
    \E u, v \in Slots :
        /\ wh[u] = "timeout" /\ task[u].escaped # "none"
        /\ wh[v] = "ok"

(* ------------------------------- C18 ---------------------------------- *)

\* C18: while the server is up, application and loop are assigned, the
\* three command handlers and the error handler are registered and the
\* application is initialized; no request has met application or loop
\* as None.
C18_ServeAfterSetup ==
    /\ proc.serving =>
           /\ application = "Application" /\ loop = "loop"
           /\ proc.handlers = Commands /\ proc.errorHandler
           /\ proc.initialized
    /\ \A u \in Slots :
           wh[u] # "none" => (wh[u] # "error" /\ application = "Application" /\ loop = "loop")

\* C18 witness: a request with an update is being served after set-up.
C18_Witness ==
    \E u \in Slots :
        /\ wh[u] = "waiting" /\ task[u].pc = "queued"
        /\ application = "Application" /\ proc.initialized

=============================================================================
